---- MODULE Spec2Model ----
(***************************************************************************)
(* Model of the two scripts of monsters_from_the_dot_grid:                 *)
(*   generate_icons.py     draws one icon per entry of `sizes` and saves it *)
(*   resize_screenshots.py resizes four screenshots to target_size          *)
(* An image is kept as its pixel dimensions plus the list of paint          *)
(* operations applied to the canvas, in order; PixelAt gives the colour of  *)
(* a pixel (the last operation covering it wins, else the background).      *)
(***************************************************************************)
EXTENDS Integers, Sequences, FiniteSets, TLC

\* ------------------------------------------------------------- bounds
\* how many times in a row a script is run
MaxRuns == 2
\* canvas sizes 1..MaxCanvas for the pixel-level check of create_icon
MaxCanvas == 40
\* canvas sizes 1..MaxLayout for the layout check of create_icon
MaxLayout == 124

\* ------------------------------------------------------------- tables
\* generate_icons.py: the dict `sizes`, in insertion order
sizes ==
  << <<"appstore", 1024>>, <<"iphone_3x", 180>>, <<"iphone_2x", 120>>,
     <<"ipad_2x", 152>>, <<"ipad", 76>>, <<"notification_3x", 60>>,
     <<"notification_2x", 40>>, <<"settings_3x", 87>>, <<"settings_2x", 58>>,
     <<"spotlight_3x", 120>>, <<"spotlight_2x", 80>> >>

icons_dir == "DotGrid/DotGrid/Assets.xcassets/AppIcon.appiconset"

\* resize_screenshots.py
source_dir == "screenshots"
dest_dir == "screenshots_appstore"
target_size == <<1284, 2778>>
screenshots == <<"gameplay.png", "preferences.png", "gameover.png", "win.png">>

\* resolutions and frame counts a source screenshot may turn out to have
SrcSizes == {<<1, 1>>, <<1284, 2778>>, <<2778, 1284>>}
SrcFrames == {1, 2}

BLACK == "#000000"
WHITE == "#FFFFFF"
MAGENTA == "#FF00FF"

VARIABLES
  script,     \* which program runs: "icons", "resize", or a bare call "create_icon"
  run,        \* number of the current run of the script
  pc,         \* position in the script
  idx,        \* index of the current item of the table (1-based)
  size,       \* create_icon's argument
  img,        \* create_icon's canvas / the resizer's opened image
  row, col,   \* create_icon's loop counters
  resized,    \* the resizer's resized_img
  opened,     \* the image Image.open has returned, not yet bound to img
  src,        \* source directory: filename -> does the file exist
  dirExists,  \* does the output directory exist
  fs,         \* output directory: filename -> file content
  openFiles,  \* source files with an open file handle
  out,        \* lines printed so far in this run
  io,         \* file operations attempted in this run, in order
  dirStart,   \* dirExists at the start of this run
  fsStart,    \* fs at the start of this run
  fsPrev      \* fs at the end of the previous run

vars == <<script, run, pc, idx, size, img, row, col, resized, opened, src, dirExists,
          fs, openFiles, out, io, dirStart, fsStart, fsPrev>>

\* ------------------------------------------------------------- images
Max2(a, b) == IF a >= b THEN a ELSE b

NoImage == [kind |-> "none", size |-> <<0, 0>>, frames |-> 0, bg |-> BLACK, ops |-> <<>>]

\* fault variant: a canvas one pixel short in height
NewImageNarrow(sz) ==
  [kind |-> "image", size |-> <<sz, sz - 1>>, frames |-> 1, bg |-> BLACK, ops |-> <<>>]

\* Image.new('RGB', (size, size), color='#000000')
NewImage(sz) ==
  [kind |-> "image", size |-> <<sz, sz>>, frames |-> 1, bg |-> BLACK, ops |-> <<>>]

\* dot_spacing = size // 8
dot_spacing(sz) == sz \div 8

\* fault variant: the radius without its floor of 2
dot_size_unfloored(sz) == sz \div 60

\* fault variant: a radius that depends on state outside create_icon's argument
dot_size_per_run(sz) == Max2(2, sz \div 60) + (run - 1)

\* dot_size = max(2, size // 60)
dot_size(sz) == Max2(2, sz \div 60)

\* the box handed to draw.ellipse for the dot of (row r, col c)
DotBox(sz, r, c) ==
  LET x == c * dot_spacing(sz)
      y == r * dot_spacing(sz)
  IN  <<x - dot_size(sz), y - dot_size(sz), x + dot_size(sz), y + dot_size(sz)>>

center(sz) == sz \div 2
triangle_size(sz) == sz \div 3

\* fault variant: the triangle pointing down
points_down(sz) ==
  << <<center(sz), center(sz) + triangle_size(sz) \div 2>>,
     <<center(sz) - triangle_size(sz) \div 2, center(sz) - triangle_size(sz) \div 2>>,
     <<center(sz) + triangle_size(sz) \div 2, center(sz) - triangle_size(sz) \div 2>> >>

\* the three points handed to draw.polygon: top, bottom left, bottom right
points(sz) ==
  << <<center(sz), center(sz) - triangle_size(sz) \div 2>>,
     <<center(sz) - triangle_size(sz) \div 2, center(sz) + triangle_size(sz) \div 2>>,
     <<center(sz) + triangle_size(sz) \div 2, center(sz) + triangle_size(sz) \div 2>> >>

Ellipse(box) == [shape |-> "ellipse", xy |-> box, fill |-> WHITE]
Polygon(pts) == [shape |-> "polygon", xy |-> pts, fill |-> MAGENTA]

\* draw.ellipse / draw.polygon paint onto the canvas, over what is there
Paint(im, op) == [im EXCEPT !.ops = Append(@, op)]

\* ---- what a paint operation covers (filled shapes, edges included)
InEllipse(box, p) ==
  LET w == box[3] - box[1]
      h == box[4] - box[2]
      dx == 2 * p[1] - (box[1] + box[3])
      dy == 2 * p[2] - (box[2] + box[4])
  IN  dx * dx * h * h + dy * dy * w * w <= w * w * h * h

Cross(a, b, p) == (b[1] - a[1]) * (p[2] - a[2]) - (b[2] - a[2]) * (p[1] - a[1])

InTriangle(pts, p) ==
  LET d1 == Cross(pts[1], pts[2], p)
      d2 == Cross(pts[2], pts[3], p)
      d3 == Cross(pts[3], pts[1], p)
  IN  ~ ((d1 < 0 \/ d2 < 0 \/ d3 < 0) /\ (d1 > 0 \/ d2 > 0 \/ d3 > 0))

Covers(op, p) ==
  IF op.shape = "ellipse" THEN InEllipse(op.xy, p) ELSE InTriangle(op.xy, p)

Canvas(im) == (0 .. im.size[1] - 1) \X (0 .. im.size[2] - 1)

MaxOf(S) == CHOOSE x \in S : \A y \in S : y <= x

\* colour of pixel p of image im
PixelAt(im, p) ==
  LET hits == {i \in 1 .. Len(im.ops) : Covers(im.ops[i], p)}
  IN  IF hits = {} THEN im.bg ELSE im.ops[MaxOf(hits)].fill

\* ------------------------------------------------------------- create_icon
\* img = Image.new(...); draw = ImageDraw.Draw(img)
CreateCanvas ==
  /\ pc = "new"
  /\ img' = NewImage(size)
  /\ row' = 0
  /\ col' = 0
  /\ pc' = "dots"
  /\ UNCHANGED <<script, run, idx, size, resized, opened, src, dirExists, fs,
                 openFiles, out, io, dirStart, fsStart, fsPrev>>

\* one draw.ellipse call of the nested loops over range(9) x range(9)
DrawDot ==
  /\ pc = "dots"
  /\ row < 9
  /\ img' = Paint(img, Ellipse(DotBox(size, row, col)))
  /\ IF col < 8
       THEN col' = col + 1 /\ row' = row
       ELSE col' = 0 /\ row' = row + 1
  /\ pc' = IF row = 8 /\ col = 8 THEN "triangle" ELSE "dots"
  /\ UNCHANGED <<script, run, idx, size, resized, opened, src, dirExists, fs,
                 openFiles, out, io, dirStart, fsStart, fsPrev>>

\* fault variant: the triangle painted under the dots instead of over them
DrawTriangleFirst ==
  /\ pc = "triangle"
  /\ img' = [img EXCEPT !.ops = <<Polygon(points(size))>> \o @]
  /\ pc' = "return"
  /\ UNCHANGED <<script, run, idx, size, row, col, resized, opened, src, dirExists,
                 fs, openFiles, out, io, dirStart, fsStart, fsPrev>>

\* draw.polygon(points, fill='#FF00FF')
DrawTriangle ==
  /\ pc = "triangle"
  /\ img' = Paint(img, Polygon(points(size)))
  /\ pc' = "return"
  /\ UNCHANGED <<script, run, idx, size, row, col, resized, opened, src, dirExists,
                 fs, openFiles, out, io, dirStart, fsStart, fsPrev>>

\* return img
ReturnIcon ==
  /\ pc = "return"
  /\ pc' = "save"
  /\ UNCHANGED <<script, run, idx, size, img, row, col, resized, opened, src,
                 dirExists, fs, openFiles, out, io, dirStart, fsStart, fsPrev>>

\* a bare call create_icon(sz)
InitCall(S) ==
  /\ script = "create_icon"
  /\ run = 1
  /\ pc = "new"
  /\ idx = 1
  /\ size \in S
  /\ img = NoImage
  /\ row = 0
  /\ col = 0
  /\ resized = NoImage
  /\ opened = NoImage
  /\ src = <<>>
  /\ dirExists = TRUE
  /\ fs = <<>>
  /\ openFiles = {}
  /\ out = <<>>
  /\ io = <<>>
  /\ dirStart = TRUE
  /\ fsStart = <<>>
  /\ fsPrev = <<>>

InitDraw == InitCall(1 .. MaxCanvas)
InitLayout == InitCall(1 .. MaxLayout)

NextDraw == CreateCanvas \/ DrawDot \/ DrawTriangle \/ ReturnIcon

SpecDraw == InitDraw /\ [][NextDraw]_vars
SpecLayout == InitLayout /\ [][NextDraw]_vars

\* ------------------------------------------------------------- files
\* fault variant: a file name built from the size alone
filename_by_size(name, sz) ==
  icons_dir \o "/icon_" \o ToString(sz) \o "x" \o ToString(sz) \o ".png"

\* filename = f"{icons_dir}/icon_{name}_{size}x{size}.png"
filename(name, sz) ==
  icons_dir \o "/icon_" \o name \o "_" \o ToString(sz) \o "x" \o ToString(sz) \o ".png"

\* os.path.join(source_dir, filename), os.path.join(dest_dir, filename)
source_path(f) == source_dir \o "/" \o f
dest_path(f) == dest_dir \o "/" \o f

SourcePaths == {source_path(screenshots[i]) : i \in 1 .. Len(screenshots)}

\* a file left in the output directory by something else, and a file whose
\* write did not complete
Stale == [kind |-> "stale", size |-> <<0, 0>>, frames |-> 1, bg |-> BLACK, ops |-> <<>>]
Partial == [kind |-> "partial", size |-> <<0, 0>>, frames |-> 1, bg |-> BLACK, ops |-> <<>>]

EmptyDir == [p \in {} |-> NoImage]
Put(dir, p, v) == [q \in DOMAIN dir \cup {p} |-> IF q = p THEN v ELSE dir[q]]

\* what the output directory may hold before the first run
OldFiles(first, last, dirname) ==
  {[p \in S |-> Stale] : S \in SUBSET {first, last, dirname \o "/notes.txt"}}

Ev(op, f, ok) == [op |-> op, file |-> f, ok |-> ok]
Line(text, item) == [text |-> text, item |-> item]

\* fault variant: the exception is swallowed and the loop carries on
Handled(ev) ==
  /\ pc' = "print"
  /\ io' = Append(io, ev)

\* an exception nothing catches ends the script (neither script has a try)
Unhandled(ev) ==
  /\ pc' = "aborted"
  /\ io' = Append(io, ev)

\* os.makedirs(dir, exist_ok=True)
Makedirs ==
  /\ pc = "makedirs"
  /\ script \in {"icons", "resize"}
  /\ \/ /\ dirExists' = TRUE
        /\ io' = Append(io, Ev("makedirs", "", TRUE))
        /\ pc' = "header"
     \/ /\ ~ dirExists
        /\ Unhandled(Ev("makedirs", "", FALSE))
        /\ UNCHANGED dirExists
  /\ UNCHANGED <<script, run, idx, size, img, row, col, resized, opened, src, fs,
                 openFiles, out, dirStart, fsStart, fsPrev>>

\* print("Generating app icons...") / print(f"Resizing screenshots to ...")
PrintHeader ==
  /\ pc = "header"
  /\ out' = Append(out, Line(IF script = "icons" THEN "Generating app icons..."
                                                ELSE "Resizing screenshots to", ""))
  /\ idx' = 1
  /\ pc' = "loop"
  /\ UNCHANGED <<script, run, size, img, row, col, resized, opened, src, dirExists,
                 fs, openFiles, io, dirStart, fsStart, fsPrev>>

\* ------------------------------------------------------------- generate_icons.py
\* for name, size in sizes.items(): icon = create_icon(size)
NextIcon ==
  /\ script = "icons"
  /\ pc = "loop"
  /\ IF idx <= Len(sizes)
       THEN size' = sizes[idx][2] /\ pc' = "new"
       ELSE size' = size /\ pc' = "finish"
  /\ UNCHANGED <<script, run, idx, img, row, col, resized, opened, src, dirExists,
                 fs, openFiles, out, io, dirStart, fsStart, fsPrev>>

\* icon.save(filename, 'PNG')
SaveIcon ==
  /\ script = "icons"
  /\ pc = "save"
  /\ LET f == filename(sizes[idx][1], size)
     IN  \/ /\ fs' = Put(fs, f, img)
            /\ io' = Append(io, Ev("save", f, TRUE))
            /\ pc' = "print"
         \/ /\ fs' \in {fs, Put(fs, f, Partial)}
            /\ Unhandled(Ev("save", f, FALSE))
  /\ UNCHANGED <<script, run, idx, size, img, row, col, resized, opened, src,
                 dirExists, openFiles, out, dirStart, fsStart, fsPrev>>

\* print(f"  Created {name}: {size}x{size}px")
PrintCreated ==
  /\ script = "icons"
  /\ pc = "print"
  /\ out' = Append(out, Line("Created", filename(sizes[idx][1], sizes[idx][2])))
  /\ idx' = idx + 1
  /\ pc' = "loop"
  /\ UNCHANGED <<script, run, size, img, row, col, resized, opened, src, dirExists,
                 fs, openFiles, io, dirStart, fsStart, fsPrev>>

\* print("\nAll icons generated successfully!"); print(f"Icons saved to: ...")
FinishIcons ==
  /\ script = "icons"
  /\ pc = "finish"
  /\ out' = out \o <<Line("All icons generated successfully!", ""),
                     Line("Icons saved to", icons_dir)>>
  /\ pc' = "done"
  /\ UNCHANGED <<script, run, idx, size, img, row, col, resized, opened, src,
                 dirExists, fs, openFiles, io, dirStart, fsStart, fsPrev>>

\* ------------------------------------------------------------- resize_screenshots.py
\* for filename in screenshots:
NextShot ==
  /\ script = "resize"
  /\ pc = "loop"
  /\ pc' = IF idx <= Len(screenshots) THEN "open" ELSE "finish"
  /\ UNCHANGED <<script, run, idx, size, img, row, col, resized, opened, src,
                 dirExists, fs, openFiles, out, io, dirStart, fsStart, fsPrev>>

\* fault variant: a missing file does not stop the open
CanOpenAnything(p) == TRUE

\* Image.open raises when the file is not there

CanOpen(p) == src[p]

\* the image Image.open returns for a file of resolution d with n frames
Opened(p, d, n) ==
  [kind |-> "image", size |-> d, frames |-> n, bg |-> BLACK,
   ops |-> <<[shape |-> "decode", xy |-> d, fill |-> p]>>]

\* Image.open(source_path): opens the file and reads its header
OpenImage ==
  /\ script = "resize"
  /\ pc = "open"
  /\ LET p == source_path(screenshots[idx])
     IN  \/ /\ CanOpen(p)
            /\ \E d \in SrcSizes, n \in SrcFrames : opened' = Opened(p, d, n)
            /\ openFiles' = openFiles \cup {p}
            /\ io' = Append(io, Ev("open", p, TRUE))
            /\ pc' = "bind"
         \/ /\ ~ CanOpen(p)
            /\ Unhandled(Ev("open", p, FALSE))
            /\ UNCHANGED <<opened, openFiles>>
  /\ UNCHANGED <<script, run, idx, size, img, row, col, resized, src, dirExists,
                 fs, out, dirStart, fsStart, fsPrev>>

\* img = ...: the name is rebound; the image it named before is dropped, and
\* with it the file handle that image still held
BindImage ==
  /\ script = "resize"
  /\ pc = "bind"
  /\ img' = opened
  /\ openFiles' = openFiles \cap {source_path(screenshots[idx])}
  /\ pc' = "resize"
  /\ UNCHANGED <<script, run, idx, size, row, col, resized, opened, src, dirExists,
                 fs, out, io, dirStart, fsStart, fsPrev>>

\* fault variant: only the width is brought to the target
ResizeKeepWidth(im, target) ==
  [im EXCEPT !.size = <<target[1], im.size[2]>>,
             !.frames = 1,
             !.ops = Append(@, [shape |-> "resample", xy |-> target, fill |-> "LANCZOS"])]

\* img.resize(target_size, Image.Resampling.LANCZOS)
Resize(im, target) ==
  [im EXCEPT !.size = target,
             !.frames = 1,
             !.ops = Append(@, [shape |-> "resample", xy |-> target, fill |-> "LANCZOS"])]

\* current_size = img.size; resized_img = img.resize(...): resize loads the
\* pixel data, and loading a single-frame file closes its handle, while a
\* file with further frames keeps it for later seeks
ResizeImage ==
  /\ script = "resize"
  /\ pc = "resize"
  /\ resized' = Resize(img, target_size)
  /\ openFiles' = IF img.frames = 1
                    THEN openFiles \ {source_path(screenshots[idx])}
                    ELSE openFiles
  /\ pc' = "save"
  /\ UNCHANGED <<script, run, idx, size, img, row, col, opened, src, dirExists, fs,
                 out, io, dirStart, fsStart, fsPrev>>

\* resized_img.save(dest_path, 'PNG', optimize=True)
SaveShot ==
  /\ script = "resize"
  /\ pc = "save"
  /\ LET p == dest_path(screenshots[idx])
     IN  \/ /\ fs' = Put(fs, p, resized)
            /\ io' = Append(io, Ev("save", p, TRUE))
            /\ pc' = "print"
         \/ /\ fs' \in {fs, Put(fs, p, Partial)}
            /\ Unhandled(Ev("save", p, FALSE))
  /\ UNCHANGED <<script, run, idx, size, img, row, col, resized, opened, src,
                 dirExists, openFiles, out, dirStart, fsStart, fsPrev>>

\* print(f"  ok {filename}: {current_size} -> {target_size}")
PrintShot ==
  /\ script = "resize"
  /\ pc = "print"
  /\ out' = Append(out, Line("Resized", dest_path(screenshots[idx])))
  /\ idx' = idx + 1
  /\ pc' = "loop"
  /\ UNCHANGED <<script, run, size, img, row, col, resized, opened, src, dirExists,
                 fs, openFiles, io, dirStart, fsStart, fsPrev>>

\* print("\nAll screenshots resized successfully!"); print(f"App Store ready ...")
FinishShots ==
  /\ script = "resize"
  /\ pc = "finish"
  /\ out' = out \o <<Line("All screenshots resized successfully!", ""),
                     Line("App Store ready screenshots saved to", dest_dir)>>
  /\ pc' = "done"
  /\ UNCHANGED <<script, run, idx, size, img, row, col, resized, opened, src,
                 dirExists, fs, openFiles, io, dirStart, fsStart, fsPrev>>

\* ------------------------------------------------------------- runs
\* the script is started again after a run that completed; the process of the
\* earlier run is gone, and its file handles with it
Restart ==
  /\ pc = "done"
  /\ run < MaxRuns
  /\ run' = run + 1
  /\ pc' = "makedirs"
  /\ idx' = 1
  /\ img' = NoImage
  /\ resized' = NoImage
  /\ opened' = NoImage
  /\ row' = 0
  /\ col' = 0
  /\ openFiles' = {}
  /\ out' = <<>>
  /\ io' = <<>>
  /\ dirStart' = dirExists
  /\ fsStart' = fs
  /\ fsPrev' = fs
  /\ UNCHANGED <<script, size, src, dirExists, fs>>

InitScript(name, first, last, dirname) ==
  /\ script = name
  /\ run = 1
  /\ pc = "makedirs"
  /\ idx = 1
  /\ size = 0
  /\ img = NoImage
  /\ row = 0
  /\ col = 0
  /\ resized = NoImage
  /\ opened = NoImage
  /\ dirExists \in BOOLEAN
  /\ fs \in (IF dirExists THEN OldFiles(first, last, dirname) ELSE {EmptyDir})
  /\ openFiles = {}
  /\ out = <<>>
  /\ io = <<>>
  /\ dirStart = dirExists
  /\ fsStart = fs
  /\ fsPrev = EmptyDir

InitIcons ==
  /\ InitScript("icons", filename(sizes[1][1], sizes[1][2]),
                filename(sizes[Len(sizes)][1], sizes[Len(sizes)][2]), icons_dir)
  /\ src = [p \in {} |-> FALSE]

InitResize ==
  /\ InitScript("resize", dest_path(screenshots[1]),
                dest_path(screenshots[Len(screenshots)]), dest_dir)
  /\ src \in [SourcePaths -> BOOLEAN]

Init == InitIcons \/ InitResize

Next ==
  \/ Makedirs \/ PrintHeader \/ Restart
  \/ NextIcon \/ CreateCanvas \/ DrawDot \/ DrawTriangle \/ ReturnIcon
  \/ SaveIcon \/ PrintCreated \/ FinishIcons
  \/ NextShot \/ OpenImage \/ BindImage \/ ResizeImage \/ SaveShot \/ PrintShot
  \/ FinishShots

Spec == Init /\ [][Next]_vars

\* ------------------------------------------------------------- properties
IconsDir == "DotGrid/DotGrid/Assets.xcassets/AppIcon.appiconset/"

\* the file each entry of the table is to produce, entry by entry
IconFileOfEntry ==
  << <<IconsDir \o "icon_appstore_1024x1024.png", 1024>>,
     <<IconsDir \o "icon_iphone_3x_180x180.png", 180>>,
     <<IconsDir \o "icon_iphone_2x_120x120.png", 120>>,
     <<IconsDir \o "icon_ipad_2x_152x152.png", 152>>,
     <<IconsDir \o "icon_ipad_76x76.png", 76>>,
     <<IconsDir \o "icon_notification_3x_60x60.png", 60>>,
     <<IconsDir \o "icon_notification_2x_40x40.png", 40>>,
     <<IconsDir \o "icon_settings_3x_87x87.png", 87>>,
     <<IconsDir \o "icon_settings_2x_58x58.png", 58>>,
     <<IconsDir \o "icon_spotlight_3x_120x120.png", 120>>,
     <<IconsDir \o "icon_spotlight_2x_80x80.png", 80>> >>

ExpectedIconFiles == {IconFileOfEntry[i][1] : i \in 1 .. Len(IconFileOfEntry)}

ShotNames == <<"gameplay.png", "preferences.png", "gameover.png", "win.png">>
SourceOfShot == [i \in 1 .. 4 |-> "screenshots/" \o ShotNames[i]]
DestOfShot == [i \in 1 .. 4 |-> "screenshots_appstore/" \o ShotNames[i]]
ExpectedShotFiles == {DestOfShot[i] : i \in 1 .. 4}

\* files whose save completed in this run
Written == {io[j].file : j \in {k \in 1 .. Len(io) : io[k].op = "save" /\ io[k].ok}}

RunOver == pc \in {"done", "aborted"}

\* C1: after a run of the icon generator that completes without error, every
\* entry (label, size) of the table has its file icon_<label>_<size>x<size>.png
\* in the icons directory, holding an image of size x size pixels; and
\* create_icon(size) hands back a size x size canvas.
C1_IconFilesHaveTableSize ==
  script = "icons" =>
    /\ pc = "save" => img.size = <<sizes[idx][2], sizes[idx][2]>>
    /\ pc = "done" =>
         \A i \in 1 .. Len(IconFileOfEntry) :
           LET f == IconFileOfEntry[i][1]
               n == IconFileOfEntry[i][2]
           IN  /\ f \in DOMAIN fs
               /\ fs[f].kind = "image"
               /\ fs[f].size = <<n, n>>

C1_Witness ==
  /\ script = "icons"
  /\ pc = "done"
  /\ run = 1
  /\ ~ dirStart
  /\ fs[IconsDir \o "icon_appstore_1024x1024.png"].size = <<1024, 1024>>

\* C2: every file the resizer writes to the destination directory has exactly
\* 1284 x 2778 pixels, whatever the resolution and aspect ratio of its source.
C2_OutputHasTargetSize ==
  script = "resize" =>
    /\ pc = "save" => resized.size = <<1284, 2778>>
    /\ \A i \in 1 .. 4 :
         DestOfShot[i] \in Written =>
           /\ DestOfShot[i] \in DOMAIN fs
           /\ fs[DestOfShot[i]].kind = "image"
           /\ fs[DestOfShot[i]].size = <<1284, 2778>>

C2_Witness ==
  /\ script = "resize"
  /\ pc = "done"
  /\ Written = ExpectedShotFiles
  /\ fs[DestOfShot[1]].ops[1].xy = <<2778, 1284>>
  /\ fs[DestOfShot[2]].ops[1].xy = <<1, 1>>
  /\ fs[DestOfShot[1]].size = <<1284, 2778>>

\* C3: when a source screenshot is absent the run ends at the open of that
\* file: the script never gets past the open, no save of its destination is
\* attempted, and its destination file is as it was at the start of the run
\* (not created, not truncated, not modified, never half-written).
C3_MissingSourceLeavesNoOutput ==
  script = "resize" =>
    \A i \in 1 .. 4 :
      ~ src[SourceOfShot[i]] =>
        /\ idx <= i
        /\ idx = i => pc \in {"makedirs", "header", "loop", "open", "aborted"}
        /\ (idx = i /\ pc = "aborted" /\ io[Len(io)].op # "makedirs")
              => io[Len(io)] = Ev("open", SourceOfShot[i], FALSE)
        /\ \A j \in 1 .. Len(io) : io[j].file # DestOfShot[i]
        /\ (DestOfShot[i] \in DOMAIN fs) = (DestOfShot[i] \in DOMAIN fsStart)
        /\ DestOfShot[i] \in DOMAIN fs =>
             /\ fs[DestOfShot[i]] = fsStart[DestOfShot[i]]
             /\ fs[DestOfShot[i]].kind # "partial"

C3_Witness ==
  /\ script = "resize"
  /\ pc = "aborted"
  /\ idx = 4
  /\ ~ src[SourceOfShot[4]]
  /\ io[Len(io)] = Ev("open", SourceOfShot[4], FALSE)
  /\ Written = {DestOfShot[1], DestOfShot[2], DestOfShot[3]}
  /\ DestOfShot[4] \in DOMAIN fs
  /\ fs[DestOfShot[4]].kind = "stale"

ExpectedFiles == IF script = "icons" THEN ExpectedIconFiles ELSE ExpectedShotFiles

PathsUpTo(n) ==
  IF script = "icons"
    THEN {IconFileOfEntry[i][1] : i \in 1 .. n}
    ELSE {SourceOfShot[i] : i \in 1 .. n} \cup {DestOfShot[i] : i \in 1 .. n}

IsSuccessLine(l) ==
  l.text \in {"All icons generated successfully!", "All screenshots resized successfully!"}

IsProgressLine(l) == l.text \in {"Created", "Resized"}

\* C6: a failing open or save (or makedirs) ends the run for good: the failure
\* is the last file operation of the run and the only failed one, no step is
\* enabled afterwards, no operation is attempted twice, nothing of a later
\* item is opened or written, no progress line of the failing or a later item
\* and no success line is printed; the success line appears only when every
\* item of the table was written in this run.
C6_FailureAbortsRun ==
  script \in {"icons", "resize"} =>
    /\ \A a, b \in 1 .. Len(io) :
         (a # b) => ~ (io[a].op = io[b].op /\ io[a].file = io[b].file)
    /\ \A j \in 1 .. Len(io) : ~ io[j].ok => (j = Len(io) /\ pc = "aborted")
    /\ pc = "aborted" =>
         /\ ~ ENABLED Next
         /\ io # <<>> /\ ~ io[Len(io)].ok
         /\ \A j \in 1 .. Len(io) :
              io[j].op # "makedirs" => io[j].file \in PathsUpTo(idx)
         /\ \A k \in 1 .. Len(out) :
              /\ ~ IsSuccessLine(out[k])
              /\ IsProgressLine(out[k]) => out[k].item \in PathsUpTo(idx - 1)
    /\ (\E k \in 1 .. Len(out) : IsSuccessLine(out[k])) =>
         /\ pc = "done"
         /\ Written = ExpectedFiles

C6_Witness ==
  /\ script = "resize"
  /\ pc = "aborted"
  /\ idx = 3
  /\ io[Len(io)] = Ev("save", DestOfShot[3], FALSE)
  /\ Len(out) = 3
  /\ Written = {DestOfShot[1], DestOfShot[2]}

\* C7 as stated: in the resizer at most one source file is open at any time,
\* and none is open when the run has ended.
C7_AsClaimed ==
  script = "resize" =>
    /\ Cardinality(openFiles) <= 1
    /\ RunOver => openFiles = {}

C9_TrianglePlacement ==
  (script = "icons" /\ pc \in {"return", "save", "print"}) =>
    LET pts == img.ops[82].xy
        n == size
        c == n \div 2
        h == (n \div 3) \div 2
    IN  /\ \E i \in 1 .. Len(IconFileOfEntry) : IconFileOfEntry[i][2] = n
        /\ img.size = <<n, n>>
        /\ img.ops[82].shape = "polygon"
        /\ pts = << <<c, c - h>>, <<c - h, c + h>>, <<c + h, c + h>> >>
        /\ pts[1][2] < pts[2][2]
        /\ pts[2][2] = pts[3][2]
        /\ pts[2][1] + pts[3][1] = 2 * c
        /\ pts[1][2] + pts[2][2] = 2 * c
        /\ pts[3][1] - pts[2][1] = pts[2][2] - pts[1][2]
        /\ \A v \in 1 .. 3 :
             /\ pts[v][1] >= 0 /\ pts[v][1] <= n - 1
             /\ pts[v][2] >= 0 /\ pts[v][2] <= n - 1

C9_Witness ==
  /\ script = "icons"
  /\ pc = "save"
  /\ size = 40
  /\ Len(img.ops) = 82
  /\ img.ops[82].xy = << <<20, 14>>, <<14, 26>>, <<26, 26>> >>

\* the triangle and the dots of a canvas of size n, as the layout fixes them
TriangleOf(n) ==
  LET c == n \div 2
      h == (n \div 3) \div 2
  IN  << <<c, c - h>>, <<c - h, c + h>>, <<c + h, c + h>> >>

InSomeDot(n, p) ==
  LET s == n \div 8
      r == IF n \div 60 > 2 THEN n \div 60 ELSE 2
  IN  \E rr \in 0 .. 8, cc \in 0 .. 8 :
        InEllipse(<<cc * s - r, rr * s - r, cc * s + r, rr * s + r>>, p)

\* C10: the canvas starts all black, the 81 dots are drawn before the
\* triangle and nothing after it; so in the returned image every pixel the
\* triangle covers is magenta, also where a dot covers it, and every pixel
\* covered by neither a dot nor the triangle is black.
C10_TriangleOverDots ==
  script = "create_icon" =>
    /\ (pc = "dots" /\ row = 0 /\ col = 0) => (img.ops = <<>> /\ img.bg = BLACK)
    /\ \A p \in (IF pc = "dots" /\ row = 0 /\ col = 0 THEN Canvas(img) ELSE {}) :
         PixelAt(img, p) = BLACK
    /\ \A k \in 1 .. Len(img.ops) :
         /\ k <= 82
         /\ (k <= 81) = (img.ops[k].shape = "ellipse")
         /\ (k = 82) = (img.ops[k].shape = "polygon")
    /\ pc \in {"return", "save"} =>
         /\ Len(img.ops) = 82
         /\ \A p \in Canvas(img) :
              /\ InTriangle(TriangleOf(size), p) => PixelAt(img, p) = MAGENTA
              /\ (~ InTriangle(TriangleOf(size), p) /\ ~ InSomeDot(size, p))
                    => PixelAt(img, p) = BLACK

C10_Witness ==
  /\ script = "create_icon"
  /\ pc = "save"
  /\ size = 40
  /\ InTriangle(TriangleOf(40), <<20, 20>>)
  /\ InEllipse(img.ops[41].xy, <<20, 20>>)
  /\ img.ops[41].fill = WHITE
  /\ PixelAt(img, <<20, 20>>) = MAGENTA
  /\ PixelAt(img, <<0, 0>>) = WHITE
  /\ PixelAt(img, <<2, 2>>) = BLACK
====
